---- MODULE Spec2Model ----
(***************************************************************************)
(* The transactional data-access layer of the school ORM (src/level3.py):  *)
(* the sqlite3 connection owned by DatabaseManager, the three tables it    *)
(* bootstraps, and the Student / Course / Enrollment repositories that     *)
(* write to them.                                                          *)
(*                                                                         *)
(* Storage semantics are those of Python's sqlite3 module with its default *)
(* isolation_level: a transaction is opened implicitly before INSERT,      *)
(* UPDATE and DELETE, Connection.commit() makes the pending changes        *)
(* durable, Connection.rollback() discards them.  The connection is opened *)
(* by sqlite3.connect() and no PRAGMA is issued on it.                     *)
(***************************************************************************)
EXTENDS Integers, Sequences, FiniteSets, Bags, TLC

\* ---------------------------------------------------------------- bounds
\* At most MaxStudents rows are ever inserted into Students.
MaxStudents == 2
\* The longest student_ids list handed to enroll_students_to_course.
MaxBatch == 2

\* Python's None for an Optional[int] id; AUTOINCREMENT ids start at 1.
None == 0

VARIABLES
    disk,     \* the durable content of the database file
    conn,     \* the DatabaseManager's connection: open, in_transaction, view
    entered,  \* history: the durable content when the current scope was entered
    last      \* the last call made and what it returned or raised

vars == <<disk, conn, entered, last>>

\* ------------------------------------------------------------ input sets
\* The ids callers pass to the student repository.
StudentIds == 1..MaxStudents
\* The student and course ids callers pass to the enrollment repository.  Which
\* of them name a row depends on what has been created and deleted so far.
EnrollStudentIds == {1, 2}
EnrollCourseIds == {1, 2}

\* Student(...) values a caller constructs; id is unset (None) for create.
\* The third one is the dataclass default Student().
StudentValues ==
    { [name |-> "Max", surname |-> "Brooks", age |-> 24, city |-> "Spb"],
      [name |-> "Andy", surname |-> "Wings", age |-> 45, city |-> "Manchester"],
      [name |-> "", surname |-> "", age |-> 0, city |-> ""] }

\* Student(...) values built without input_student_data: the ones above and
\* Student(age=1), whose name, surname and city keep the dataclass default "".
AnyStudentValues ==
    StudentValues \cup {[name |-> "", surname |-> "", age |-> 1, city |-> ""]}

\* Course(...) values a caller constructs.
CourseValues ==
    { [name |-> "python", time_start |-> "21.07.21", time_end |-> "21.08.21"],
      [name |-> "java", time_start |-> "13.07.21", time_end |-> "16.08.21"] }

\* An error the body of a scope raises on its own (input() at end of input).
BodyErrors == {"EOFError"}

\* ---------------------------------------------------------------- entities
Student(id, v) ==
    [id |-> id, name |-> v.name, surname |-> v.surname, age |-> v.age, city |-> v.city]

Course(id, v) ==
    [id |-> id, name |-> v.name, time_start |-> v.time_start, time_end |-> v.time_end]

\* ------------------------------------------------------------------ rows
\* A sqlite3.Row: the column names of the result and the values, in order.
StudentColumns == <<"id", "name", "surname", "age", "city">>
CourseColumns == <<"id", "name", "time_start", "time_end">>

Row(columns, values) == [keys |-> columns, values |-> values]

IndexOf(seq, x) == CHOOSE i \in 1..Len(seq) : seq[i] = x

Contains(seq, x) == \E i \in 1..Len(seq) : seq[i] = x

\* row[k] if k in row.keys() else row[pos] (pos is Python's 0-based index)
Column(row, k, pos) ==
    IF Contains(row.keys, k) THEN row.values[IndexOf(row.keys, k)]
    ELSE row.values[pos + 1]

\* Student.from_row with the name and surname columns exchanged.
Student_from_row_swapped(row) ==
    [id |-> Column(row, "id", 0),
     name |-> Column(row, "surname", 2),
     surname |-> Column(row, "name", 1),
     age |-> Column(row, "age", 3),
     city |-> Column(row, "city", 4)]

Student_from_row(row) ==
    [id |-> Column(row, "id", 0),
     name |-> Column(row, "name", 1),
     surname |-> Column(row, "surname", 2),
     age |-> Column(row, "age", 3),
     city |-> Column(row, "city", 4)]

Course_from_row(row) ==
    [id |-> Column(row, "id", 0),
     name |-> Column(row, "name", 1),
     time_start |-> Column(row, "time_start", 2),
     time_end |-> Column(row, "time_end", 3)]

\* --------------------------------------------------------------- storage
\* A database: the three tables of _create_tables and the AUTOINCREMENT
\* bookkeeping (sqlite_sequence).  Students and Courses are rowid tables kept in
\* rowid (= id) order; Student_Courses is a multiset of (student_id, course_id).
EmptyDb ==
    [tables |-> FALSE,
     Students |-> <<>>,
     Courses |-> <<>>,
     Student_Courses |-> EmptyBag,
     sqlite_sequence |-> [Students |-> 0, Courses |-> 0]]

\* PRAGMA foreign_keys of a connection returned by sqlite3.connect(): SQLite
\* leaves foreign-key enforcement off unless the connection turns it on.
foreign_keys == FALSE

NoError == "none"
UniqueFailed == "UNIQUE constraint failed"
ForeignKeyFailed == "FOREIGN KEY constraint failed"
CheckFailed == "CHECK constraint failed"
\* The messages sqlite3 raises as sqlite3.IntegrityError.
IntegrityError == {UniqueFailed, ForeignKeyFailed, CheckFailed}

Max(S) == CHOOSE m \in S : \A x \in S : x <= m

Ids(rows) == {rows[i][1] : i \in 1..Len(rows)}

\* The world a statement runs in: the durable file, the connection's view of
\* it (with the pending changes), and whether a transaction is open.
begin(w) == [w EXCEPT !.in_transaction = TRUE]

commit(w) ==
    IF w.in_transaction
    THEN [w EXCEPT !.disk = w.view, !.in_transaction = FALSE]
    ELSE w

rollback(w) ==
    IF w.in_transaction
    THEN [w EXCEPT !.view = w.disk, !.in_transaction = FALSE]
    ELSE w

\* INTEGER PRIMARY KEY without AUTOINCREMENT: one more than the largest id stored.
NextId_of_stored(rows, seq) == Max({0} \cup Ids(rows)) + 1

\* INTEGER PRIMARY KEY AUTOINCREMENT: one more than the largest id ever used.
NextId(rows, seq) == Max({seq} \cup Ids(rows)) + 1

\* INSERT INTO Students (name, surname, age, city) VALUES (?, ?, ?, ?)
INSERT_Students(w, s) ==
    LET b == begin(w)
        id == NextId(b.view.Students, b.view.sqlite_sequence.Students)
    IN  IF s.age > 0
        THEN [w |-> [b EXCEPT !.view.Students =
                                  Append(@, <<id, s.name, s.surname, s.age, s.city>>),
                              !.view.sqlite_sequence.Students = id],
              lastrowid |-> id, error |-> NoError]
        ELSE [w |-> b, lastrowid |-> None, error |-> CheckFailed]

\* The update without its WHERE clause.
UPDATE_Students_every_row(w, s) ==
    LET b == begin(w)
        rows == b.view.Students
    IN  IF rows # <<>> /\ ~(s.age > 0)
        THEN [w |-> b, rowcount |-> 0, error |-> CheckFailed]
        ELSE [w |-> [b EXCEPT !.view.Students =
                        [i \in 1..Len(rows) |->
                            <<rows[i][1], s.name, s.surname, s.age, s.city>>]],
              rowcount |-> Len(rows), error |-> NoError]

\* UPDATE Students SET name = ?, surname = ?, age = ?, city = ? WHERE id = ?
UPDATE_Students(w, s) ==
    LET b == begin(w)
        rows == b.view.Students
        hit == {i \in 1..Len(rows) : rows[i][1] = s.id}
    IN  IF hit # {} /\ ~(s.age > 0)
        THEN [w |-> b, rowcount |-> 0, error |-> CheckFailed]
        ELSE [w |-> [b EXCEPT !.view.Students =
                        [i \in 1..Len(rows) |->
                            IF i \in hit
                            THEN <<rows[i][1], s.name, s.surname, s.age, s.city>>
                            ELSE rows[i]]],
              rowcount |-> Cardinality(hit), error |-> NoError]

\* The rows of Student_Courses that are left when every row in `gone` goes.
Without(bag, gone) ==
    [p \in BagToSet(bag) \ gone |-> bag[p]]

\* DELETE FROM Students WHERE id = ?   (ON DELETE CASCADE acts only when
\* foreign keys are enforced on the connection)
DELETE_Students(w, student_id) ==
    LET b == begin(w)
        rows == b.view.Students
        kept == SelectSeq(rows, LAMBDA r : r[1] # student_id)
        links == IF foreign_keys /\ Len(kept) < Len(rows)
                 THEN Without(b.view.Student_Courses,
                              {p \in BagToSet(b.view.Student_Courses) : p[1] = student_id})
                 ELSE b.view.Student_Courses
    IN  [w |-> [b EXCEPT !.view.Students = kept, !.view.Student_Courses = links],
         rowcount |-> Len(rows) - Len(kept), error |-> NoError]

\* INSERT INTO Courses (name, time_start, time_end) VALUES (?, ?, ?)
\* The insert into a Courses table declared without UNIQUE on name.
INSERT_Courses_no_unique(w, c) ==
    LET b == begin(w)
        rows == b.view.Courses
        id == NextId(rows, b.view.sqlite_sequence.Courses)
    IN  [w |-> [b EXCEPT !.view.Courses =
                             Append(@, <<id, c.name, c.time_start, c.time_end>>),
                         !.view.sqlite_sequence.Courses = id],
         lastrowid |-> id, error |-> NoError]

INSERT_Courses(w, c) ==
    LET b == begin(w)
        rows == b.view.Courses
        id == NextId(rows, b.view.sqlite_sequence.Courses)
    IN  IF \E i \in 1..Len(rows) : rows[i][2] = c.name
        THEN [w |-> b, lastrowid |-> None, error |-> UniqueFailed]
        ELSE [w |-> [b EXCEPT !.view.Courses =
                                  Append(@, <<id, c.name, c.time_start, c.time_end>>),
                              !.view.sqlite_sequence.Courses = id],
              lastrowid |-> id, error |-> NoError]

\* The insert into a Student_Courses declared without its PRIMARY KEY.
INSERT_Student_Courses_no_primary_key(w, student_id, course_id) ==
    LET b == begin(w)
        p == <<student_id, course_id>>
    IN  IF foreign_keys /\ ~(student_id \in Ids(b.view.Students)
                             /\ course_id \in Ids(b.view.Courses))
        THEN [w |-> b, error |-> ForeignKeyFailed]
        ELSE [w |-> [b EXCEPT !.view.Student_Courses = @ (+) SetToBag({p})],
              error |-> NoError]

\* INSERT INTO Student_Courses (student_id, course_id) VALUES (?, ?)
\* PRIMARY KEY (student_id, course_id); the two FOREIGN KEY clauses are checked
\* only when foreign keys are enforced on the connection.
INSERT_Student_Courses(w, student_id, course_id) ==
    LET b == begin(w)
        p == <<student_id, course_id>>
    IN  IF CopiesIn(p, b.view.Student_Courses) > 0
        THEN [w |-> b, error |-> UniqueFailed]
        ELSE IF foreign_keys /\ ~(student_id \in Ids(b.view.Students)
                                  /\ course_id \in Ids(b.view.Courses))
        THEN [w |-> b, error |-> ForeignKeyFailed]
        ELSE [w |-> [b EXCEPT !.view.Student_Courses = @ (+) SetToBag({p})],
              error |-> NoError]

\* The delete with only student_id = ? in its WHERE clause.
DELETE_Student_Courses_of_student(w, student_id, course_id) ==
    LET b == begin(w)
        gone == {p \in BagToSet(b.view.Student_Courses) : p[1] = student_id}
    IN  [w |-> [b EXCEPT !.view.Student_Courses = Without(@, gone)],
         rowcount |-> Cardinality(gone), error |-> NoError]

\* DELETE FROM Student_Courses WHERE student_id = ? AND course_id = ?
DELETE_Student_Courses(w, student_id, course_id) ==
    LET b == begin(w)
        p == <<student_id, course_id>>
    IN  [w |-> [b EXCEPT !.view.Student_Courses = Without(@, {p})],
         rowcount |-> CopiesIn(p, b.view.Student_Courses), error |-> NoError]

\* SELECT * FROM Students WHERE id = ?  -> fetchone()
SELECT_Students_by_id(w, student_id) ==
    LET rows == SelectSeq(w.view.Students, LAMBDA r : r[1] = student_id)
    IN  [r \in 1..Len(rows) |-> Row(StudentColumns, rows[r])]

\* SELECT * FROM Courses WHERE id = ?  -> fetchone()
SELECT_Courses_by_id(w, course_id) ==
    LET rows == SelectSeq(w.view.Courses, LAMBDA r : r[1] = course_id)
    IN  [r \in 1..Len(rows) |-> Row(CourseColumns, rows[r])]

\* SELECT * FROM Courses WHERE name = ?  -> fetchone()
SELECT_Courses_by_name(w, name) ==
    LET rows == SelectSeq(w.view.Courses, LAMBDA r : r[2] = name)
    IN  [r \in 1..Len(rows) |-> Row(CourseColumns, rows[r])]

\* SELECT * FROM Students WHERE age > ?  -> fetchall(): a scan of the table,
\* which SQLite walks in rowid order.
SELECT_Students_by_age_gt(w, age) ==
    LET rows == SelectSeq(w.view.Students, LAMBDA r : r[4] > age)
    IN  [r \in 1..Len(rows) |-> Row(StudentColumns, rows[r])]

\* SELECT * FROM Students WHERE id IN (?, ..., ?)  -> fetchall(): SQLite looks
\* the distinct values of the list up in the primary key, smallest first.
SELECT_Students_by_ids(w, student_ids) ==
    LET rows == SelectSeq(w.view.Students,
                          LAMBDA r : \E i \in 1..Len(student_ids) : student_ids[i] = r[1])
    IN  [r \in 1..Len(rows) |-> Row(StudentColumns, rows[r])]

\* fetchall() of nested loops: the rows of the parts, one part after the other.
RECURSIVE Concat(_)
Concat(parts) ==
    IF parts = <<>> THEN <<>> ELSE Head(parts) \o Concat(Tail(parts))

\* SELECT s.* FROM Students s
\*   JOIN Student_Courses sc ON s.id = sc.student_id
\*   JOIN Courses c ON sc.course_id = c.id
\*  WHERE c.name = ?                           -> fetchall()
\* The same loops as with the city condition: the courses of that name, for
\* each a scan of Students in rowid order, a student once per joining row.
SELECT_Students_by_course_name(w, course_name) ==
    LET db == w.view
        cs == SelectSeq(db.Courses, LAMBDA c : c[2] = course_name)
        joined(c) ==
            Concat([i \in 1..Len(db.Students) |->
                       [k \in 1..CopiesIn(<<db.Students[i][1], c[1]>>,
                                          db.Student_Courses) |->
                           Row(StudentColumns, db.Students[i])]])
    IN  Concat([k \in 1..Len(cs) |-> joined(cs[k])])

\* The join with the city condition run with Students scanned from its last
\* row to its first.
SELECT_Students_by_course_name_and_city_backwards(w, course_name, city) ==
    LET db == w.view
        n == Len(db.Students)
        cs == SelectSeq(db.Courses, LAMBDA c : c[2] = course_name)
        joined(c) ==
            Concat([i \in 1..n |->
                       IF db.Students[n + 1 - i][5] = city
                       THEN [k \in 1..CopiesIn(<<db.Students[n + 1 - i][1], c[1]>>,
                                               db.Student_Courses) |->
                                Row(StudentColumns, db.Students[n + 1 - i])]
                       ELSE <<>>])
    IN  Concat([k \in 1..Len(cs) |-> joined(cs[k])])

\* The join without its s.city = ? condition.
SELECT_Students_by_course_name_any_city(w, course_name, city) ==
    LET db == w.view
        cs == SelectSeq(db.Courses, LAMBDA c : c[2] = course_name)
        joined(c) ==
            Concat([i \in 1..Len(db.Students) |->
                       [k \in 1..CopiesIn(<<db.Students[i][1], c[1]>>,
                                          db.Student_Courses) |->
                           Row(StudentColumns, db.Students[i])]])
    IN  Concat([k \in 1..Len(cs) |-> joined(cs[k])])

\* SELECT s.* FROM Students s
\*   JOIN Student_Courses sc ON s.id = sc.student_id
\*   JOIN Courses c ON sc.course_id = c.id
\*  WHERE c.name = ? AND s.city = ?            -> fetchall()
\* SQLite finds the courses of that name, scans Students in rowid order for
\* each, and yields a student once per Student_Courses row that joins the two.
SELECT_Students_by_course_name_and_city(w, course_name, city) ==
    LET db == w.view
        cs == SelectSeq(db.Courses, LAMBDA c : c[2] = course_name)
        joined(c) ==
            Concat([i \in 1..Len(db.Students) |->
                       IF db.Students[i][5] = city
                       THEN [k \in 1..CopiesIn(<<db.Students[i][1], c[1]>>,
                                               db.Student_Courses) |->
                                Row(StudentColumns, db.Students[i])]
                       ELSE <<>>])
    IN  Concat([k \in 1..Len(cs) |-> joined(cs[k])])

\* ---------------------------------------------------------- repositories
\* Every method returns the world it leaves, the Python type and value of what
\* it returns, and the exception it raises (NoError when it returns).
Returns(w, type, ret) == [w |-> w, type |-> type, ret |-> ret, exc |-> NoError]

Raises(w, exc) == [w |-> w, type |-> "raise", ret |-> None, exc |-> exc]

StudentRepository_create(w, student) ==
    LET r == INSERT_Students(w, student)
    IN  IF r.error # NoError THEN Raises(r.w, r.error)
        ELSE Returns(commit(r.w), "int", r.lastrowid)

\* SELECT * FROM Students  -> fetchall()
StudentRepository_get_all(w) ==
    Returns(w, "list", [i \in 1..Len(w.view.Students) |->
                           Student_from_row(Row(StudentColumns, w.view.Students[i]))])

StudentRepository_get_by_id(w, student_id) ==
    LET rows == SELECT_Students_by_id(w, student_id)
    IN  IF Len(rows) > 0 THEN Returns(w, "Student", Student_from_row(rows[1]))
        ELSE Returns(w, "NoneType", None)

\* get_by_ids that looks every id of the list up in turn.
StudentRepository_get_by_ids_one_by_one(w, student_ids) ==
    LET found == Concat([i \in 1..Len(student_ids) |->
                            SELECT_Students_by_id(w, student_ids[i])])
    IN  [w |-> w, type |-> "list", exc |-> NoError,
         ret |-> [i \in 1..Len(found) |-> Student_from_row(found[i])],
         executed |-> [i \in 1..Len(student_ids) |->
                          <<"SELECT * FROM Students WHERE id = ?", <<student_ids[i]>> >>]]

\* `executed` lists the statements handed to cursor.execute, with their
\* parameters.
StudentRepository_get_by_ids(w, student_ids) ==
    IF student_ids = <<>>
    THEN [w |-> w, type |-> "list", ret |-> <<>>, exc |-> NoError,
          executed |-> <<>>]
    ELSE LET rows == SELECT_Students_by_ids(w, student_ids)
         IN  [w |-> w, type |-> "list", exc |-> NoError,
              ret |-> [i \in 1..Len(rows) |-> Student_from_row(rows[i])],
              executed |-> << <<"SELECT * FROM Students WHERE id IN", student_ids>> >>]

\* get_by_age_gt with >= in its WHERE clause.
StudentRepository_get_by_age_ge(w, age) ==
    LET rows == SELECT_Students_by_age_gt(w, age - 1)
    IN  Returns(w, "list", [i \in 1..Len(rows) |-> Student_from_row(rows[i])])

StudentRepository_get_by_age_gt(w, age) ==
    LET rows == SELECT_Students_by_age_gt(w, age)
    IN  Returns(w, "list", [i \in 1..Len(rows) |-> Student_from_row(rows[i])])

\* update as in level1: it returns True whatever the statement matched.
StudentRepository_update_always_true(w, student) ==
    IF student.id = None THEN Raises(w, "ValueError")
    ELSE LET r == UPDATE_Students(w, student)
         IN  IF r.error # NoError THEN Raises(r.w, r.error)
             ELSE Returns(commit(r.w), "bool", TRUE)

StudentRepository_update(w, student) ==
    IF student.id = None THEN Raises(w, "ValueError")
    ELSE LET r == UPDATE_Students(w, student)
         IN  IF r.error # NoError THEN Raises(r.w, r.error)
             ELSE Returns(commit(r.w), "bool", r.rowcount > 0)

\* delete as in level1: it returns True whatever the statement matched.
StudentRepository_delete_always_true(w, student_id) ==
    LET r == DELETE_Students(w, student_id)
    IN  Returns(commit(r.w), "bool", TRUE)

StudentRepository_delete(w, student_id) ==
    LET r == DELETE_Students(w, student_id)
    IN  Returns(commit(r.w), "bool", r.rowcount > 0)

CourseRepository_create(w, course) ==
    LET r == INSERT_Courses(w, course)
    IN  IF r.error # NoError THEN Raises(r.w, r.error)
        ELSE Returns(commit(r.w), "int", r.lastrowid)

\* SELECT * FROM Courses  -> fetchall()
CourseRepository_get_all(w) ==
    Returns(w, "list", [i \in 1..Len(w.view.Courses) |->
                           Course_from_row(Row(CourseColumns, w.view.Courses[i]))])

\* get_by_id that builds the entity without looking at what fetchone returned.
CourseRepository_get_by_id_unchecked(w, course_id) ==
    LET rows == SELECT_Courses_by_id(w, course_id)
    IN  IF Len(rows) > 0 THEN Returns(w, "Course", Course_from_row(rows[1]))
        ELSE Raises(w, "TypeError")

CourseRepository_get_by_id(w, course_id) ==
    LET rows == SELECT_Courses_by_id(w, course_id)
    IN  IF Len(rows) > 0 THEN Returns(w, "Course", Course_from_row(rows[1]))
        ELSE Returns(w, "NoneType", None)

CourseRepository_get_by_name(w, name) ==
    LET rows == SELECT_Courses_by_name(w, name)
    IN  IF Len(rows) > 0 THEN Returns(w, "Course", Course_from_row(rows[1]))
        ELSE Returns(w, "NoneType", None)

\* enroll without its except clause: the IntegrityError reaches the caller.
EnrollmentRepository_enroll_uncaught(w, student_id, course_id) ==
    LET r == INSERT_Student_Courses(w, student_id, course_id)
    IN  IF r.error \in IntegrityError THEN Raises(r.w, r.error)
        ELSE Returns(commit(r.w), "bool", TRUE)

\* enroll with the return True moved out of the try block.
EnrollmentRepository_enroll_always_true(w, student_id, course_id) ==
    LET r == INSERT_Student_Courses(w, student_id, course_id)
    IN  IF r.error \in IntegrityError THEN Returns(r.w, "bool", TRUE)
        ELSE Returns(commit(r.w), "bool", TRUE)

EnrollmentRepository_enroll(w, student_id, course_id) ==
    LET r == INSERT_Student_Courses(w, student_id, course_id)
    IN  IF r.error \in IntegrityError THEN Returns(r.w, "bool", FALSE)
        ELSE Returns(commit(r.w), "bool", TRUE)

EnrollmentRepository_unenroll(w, student_id, course_id) ==
    LET r == DELETE_Student_Courses(w, student_id, course_id)
    IN  Returns(commit(r.w), "bool", r.rowcount > 0)

EnrollmentRepository_get_students_on_course(w, course_name) ==
    LET rows == SELECT_Students_by_course_name(w, course_name)
    IN  Returns(w, "list", [i \in 1..Len(rows) |-> Student_from_row(rows[i])])

EnrollmentRepository_get_students_on_course_from_city(w, course_name, city) ==
    LET rows == SELECT_Students_by_course_name_and_city(w, course_name, city)
    IN  Returns(w, "list", [i \in 1..Len(rows) |-> Student_from_row(rows[i])])

\* enroll_students_to_course without the SELECT 1 lookup before the INSERT.
RECURSIVE enroll_loop_no_lookup(_, _, _, _)
enroll_loop_no_lookup(acc, student_ids, course_id, i) ==
    IF i > Len(student_ids) THEN acc
    ELSE
        LET student_id == student_ids[i]
            r == INSERT_Student_Courses(acc.w, student_id, course_id)
            next ==
                IF r.error = NoError
                THEN [acc EXCEPT !.w = r.w,
                                 !.results.successful = Append(@, student_id)]
                ELSE [acc EXCEPT !.w = r.w,
                                 !.results.errors = Append(@, <<student_id, r.error>>)]
        IN  enroll_loop_no_lookup(next, student_ids, course_id, i + 1)

\* enroll_students_to_course with break in place of continue.
RECURSIVE enroll_loop_break(_, _, _, _)
enroll_loop_break(acc, student_ids, course_id, i) ==
    IF i > Len(student_ids) THEN acc
    ELSE
        LET student_id == student_ids[i]
            found == CopiesIn(<<student_id, course_id>>, acc.w.view.Student_Courses) > 0
            r == INSERT_Student_Courses(acc.w, student_id, course_id)
        IN  IF found
            THEN [acc EXCEPT !.results.already_enrolled = Append(@, student_id)]
            ELSE IF r.error = NoError
            THEN enroll_loop_break(
                     [acc EXCEPT !.w = r.w,
                                 !.results.successful = Append(@, student_id)],
                     student_ids, course_id, i + 1)
            ELSE enroll_loop_break(
                     [acc EXCEPT !.w = r.w,
                                 !.results.errors = Append(@, <<student_id, r.error>>)],
                     student_ids, course_id, i + 1)

\* The for loop of enroll_students_to_course from position i on: acc is the
\* world and the results dict after the ids before i.
RECURSIVE enroll_loop(_, _, _, _)
enroll_loop(acc, student_ids, course_id, i) ==
    IF i > Len(student_ids) THEN acc
    ELSE
        LET student_id == student_ids[i]
            found == CopiesIn(<<student_id, course_id>>, acc.w.view.Student_Courses) > 0
            r == INSERT_Student_Courses(acc.w, student_id, course_id)
            next ==
                IF found
                THEN [acc EXCEPT !.results.already_enrolled = Append(@, student_id)]
                ELSE IF r.error = NoError
                THEN [acc EXCEPT !.w = r.w,
                                 !.results.successful = Append(@, student_id)]
                ELSE [acc EXCEPT !.w = r.w,
                                 !.results.errors = Append(@, <<student_id, r.error>>)]
        IN  enroll_loop(next, student_ids, course_id, i + 1)

\* enroll_students_to_course without the commit after the loop.
EnrollmentRepository_enroll_students_to_course_no_commit(w, student_ids, course_id) ==
    LET results == [successful |-> <<>>, already_enrolled |-> <<>>, errors |-> <<>>]
        done == enroll_loop([w |-> w, results |-> results], student_ids, course_id, 1)
    IN  Returns(done.w, "dict", done.results)

EnrollmentRepository_enroll_students_to_course(w, student_ids, course_id) ==
    LET results == [successful |-> <<>>, already_enrolled |-> <<>>, errors |-> <<>>]
        done == enroll_loop([w |-> w, results |-> results], student_ids, course_id, 1)
    IN  Returns(commit(done.w), "dict", done.results)

\* ------------------------------------------------------------------ menus
\* select_students_interactively: nothing when no student is stored; else the
\* ids typed in (choice "1"), the ids of all stored students (choice "2"), or
\* nothing (choice "3").
select_students_interactively(w, choice, typed) ==
    LET students == StudentRepository_get_all(w).ret
    IN  IF students = <<>> THEN <<>>
        ELSE IF choice = "1" THEN typed
        ELSE IF choice = "2" THEN [i \in 1..Len(students) |-> students[i].id]
        ELSE <<>>

\* list(a_set): the members of the set, each once, in an order the language
\* does not fix.
ListsOf(S) ==
    {l \in [1..Cardinality(S) -> S] : \A i, j \in 1..Cardinality(S) : l[i] = l[j] => i = j}

\* The existence check of menu_enroll_students_to_course that hands the typed
\* list on as it is.
existence_filter_none(w, student_ids) == {student_ids}

\* The existence check of menu_enroll_students_to_course: the lists student_ids
\* can be after it.
existence_filter(w, student_ids) ==
    LET existing_students == StudentRepository_get_by_ids(w, student_ids).ret
        existing_ids == {existing_students[i].id : i \in 1..Len(existing_students)}
                            \ {None}
    IN  IF Cardinality(existing_ids) < Len(student_ids)
        THEN ListsOf(existing_ids)
        ELSE {student_ids}

\* menu_enroll_students_to_course with the inputs read from the terminal: the
\* course id, the list select_students_interactively returned, the list the
\* existence check left and the answer to the confirmation prompt.  `calls`
\* lists the calls of enroll_students_to_course it made, with their arguments.
menu_enroll_students_to_course(w, course_id, selected, student_ids, confirm) ==
    LET quit == [w |-> w, type |-> "NoneType", ret |-> None, exc |-> NoError,
                 calls |-> <<>>]
        r == EnrollmentRepository_enroll_students_to_course(w, student_ids, course_id)
    IN  IF CourseRepository_get_all(w).ret = <<>> THEN quit
        ELSE IF CourseRepository_get_by_id(w, course_id).type = "NoneType" THEN quit
        ELSE IF selected = <<>> THEN quit
        ELSE IF student_ids = <<>> THEN quit
        ELSE IF ~confirm THEN quit
        ELSE [w |-> r.w, type |-> "NoneType", ret |-> None, exc |-> NoError,
              calls |-> << <<student_ids, course_id>> >>]

\* ---------------------------------------------------------------- level2
\* The fixture of add_level2_data: courses_data, students_data and
\* enrollments_data, as the rows its INSERT statements name.
courses_data ==
    << <<1, "python", "21.07.21", "21.08.21">>,
       <<2, "java", "13.07.21", "16.08.21">> >>

students_data ==
    << <<1, "Max", "Brooks", 24, "Spb">>,
       <<2, "John", "Stones", 15, "Spb">>,
       <<3, "Andy", "Wings", 45, "Manchester">>,
       <<4, "Kate", "Brooks", 34, "Spb">> >>

enrollments_data == << <<1, 1>>, <<2, 1>>, <<3, 1>>, <<4, 2>> >>

\* The statements add_level2_data executes after its script, in order.
fixture_statements ==
    [i \in 1..Len(courses_data) |-> [table |-> "Courses", row |-> courses_data[i]]]
    \o [i \in 1..Len(students_data) |-> [table |-> "Students", row |-> students_data[i]]]
    \o [i \in 1..Len(enrollments_data) |->
            [table |-> "Student_courses", row |-> enrollments_data[i]]]

\* The errors a statement raises for a reason outside the statement
\* (sqlite3.OperationalError: database is locked, database or disk is full).
StatementErrors == {"OperationalError"}

\* A row put at its place in a table kept in rowid order.
Placed(rows, row) ==
    SelectSeq(rows, LAMBDA r : r[1] < row[1]) \o <<row>>
    \o SelectSeq(rows, LAMBDA r : r[1] > row[1])

\* INSERT INTO Courses (id, name, time_start, time_end) VALUES (?, ?, ?, ?)
INSERT_Courses_with_id(w, row) ==
    LET b == begin(w)
        rows == b.view.Courses
    IN  IF row[1] \in Ids(rows) \/ \E i \in 1..Len(rows) : rows[i][2] = row[2]
        THEN [w |-> b, error |-> UniqueFailed]
        ELSE [w |-> [b EXCEPT !.view.Courses = Placed(rows, row),
                              !.view.sqlite_sequence.Courses = Max({@, row[1]})],
              error |-> NoError]

\* INSERT INTO Students (id, name, surname, age, city) VALUES (?, ?, ?, ?, ?)
INSERT_Students_with_id(w, row) ==
    LET b == begin(w)
        rows == b.view.Students
    IN  IF row[1] \in Ids(rows)
        THEN [w |-> b, error |-> UniqueFailed]
        ELSE IF ~(row[4] > 0)
        THEN [w |-> b, error |-> CheckFailed]
        ELSE [w |-> [b EXCEPT !.view.Students = Placed(rows, row),
                              !.view.sqlite_sequence.Students = Max({@, row[1]})],
              error |-> NoError]

\* level2 DatabaseManager.__enter__: sqlite3.connect(db_name) and a cursor.
DatabaseManager_enter_level2(d) == [disk |-> d, view |-> d, in_transaction |-> FALSE]

\* level2 DatabaseManager.__exit__: commit when the body raised nothing,
\* rollback otherwise; then close.
DatabaseManager_exit_level2(w, exc_type) ==
    IF exc_type = NoError THEN commit(w) ELSE rollback(w)

\* execute_script with DELETE FROM Student_courses; DELETE FROM Students;
\* DELETE FROM Courses: cursor.executescript commits the pending transaction
\* and then runs each statement in autocommit mode, so every DELETE is durable
\* when it returns.  DELETE FROM keeps the AUTOINCREMENT bookkeeping.
execute_script_clear(w) ==
    LET c == commit(w)
        v == [c.view EXCEPT !.Student_Courses = EmptyBag, !.Students = <<>>,
                            !.Courses = <<>>]
    IN  IF c.view.tables
        THEN [w |-> [c EXCEPT !.view = v, !.disk = v], error |-> NoError]
        ELSE [w |-> c, error |-> "OperationalError"]

\* db.execute of the i-th fixture statement and of those after it; the
\* statement numbered `failing` raises `e` (no statement does when failing = 0).
RECURSIVE execute_fixture(_, _, _, _)
execute_fixture(w, i, failing, e) ==
    IF i > Len(fixture_statements)
    THEN [w |-> w, error |-> NoError]
    ELSE IF i = failing
    THEN [w |-> begin(w), error |-> e]
    ELSE LET st == fixture_statements[i]
             r == IF st.table = "Courses" THEN INSERT_Courses_with_id(w, st.row)
                  ELSE IF st.table = "Students" THEN INSERT_Students_with_id(w, st.row)
                  ELSE INSERT_Student_Courses(w, st.row[1], st.row[2])
         IN  IF r.error # NoError
             THEN [w |-> r.w, error |-> r.error]
             ELSE execute_fixture(r.w, i + 1, failing, e)

\* SchoolSystem.add_level2_data on the database file d.
add_level2_data(d, failing, e) ==
    LET s == execute_script_clear(DatabaseManager_enter_level2(d))
        r == IF s.error # NoError THEN s ELSE execute_fixture(s.w, 1, failing, e)
        x == DatabaseManager_exit_level2(r.w, r.error)
    IN  IF r.error = NoError THEN Returns(x, "NoneType", None) ELSE Raises(x, r.error)

\* ------------------------------------------------------- DatabaseManager
ClosedConn == [open |-> FALSE, in_transaction |-> FALSE, view |-> EmptyDb]

\* _create_tables with DROP TABLE IF EXISTS before each CREATE TABLE.
create_tables_dropping(w) ==
    LET v == [EmptyDb EXCEPT !.tables = TRUE]
    IN  commit([w EXCEPT !.view = v, !.disk = v])

\* CREATE TABLE IF NOT EXISTS for the three tables, then commit.
create_tables(w) ==
    LET v == IF w.view.tables THEN w.view ELSE [EmptyDb EXCEPT !.tables = TRUE]
    IN  commit([w EXCEPT !.view = v, !.disk = v])

\* sqlite3.connect(db_name), then _create_tables()
DatabaseManager_enter(d) ==
    create_tables([disk |-> d, view |-> d, in_transaction |-> FALSE])

\* commit when the body raised nothing, rollback otherwise; then close
DatabaseManager_exit(w, exc_type) ==
    IF exc_type = NoError THEN commit(w) ELSE rollback(w)

\* SchoolSystem.initialize_database on the database file d: the script of
\* CREATE TABLE IF NOT EXISTS statements, then __exit__.
initialize_database(d) ==
    DatabaseManager_exit_level2(create_tables(DatabaseManager_enter_level2(d)), NoError)

\* ----------------------------------------------------------------- state
World == [disk |-> disk, view |-> conn.view, in_transaction |-> conn.in_transaction]

Called(op, args, r) ==
    [op |-> op, args |-> args, type |-> r.type, ret |-> r.ret, exc |-> r.exc]

Init ==
    /\ disk = EmptyDb
    /\ conn = ClosedConn
    /\ entered = EmptyDb
    /\ last = [op |-> "none", args |-> <<>>, type |-> "NoneType", ret |-> None,
               exc |-> NoError]

\* with DatabaseManager() as service:   (`record` keeps the history variable)
EnterScope(record) ==
    /\ ~conn.open
    /\ LET w == DatabaseManager_enter(disk)
       IN  /\ disk' = w.disk
           /\ conn' = [open |-> TRUE, in_transaction |-> w.in_transaction,
                       view |-> w.view]
           /\ entered' = IF record THEN w.disk ELSE entered
    /\ last' = [op |-> "__enter__", args |-> <<>>, type |-> "SchoolService",
                ret |-> None, exc |-> NoError]

\* A repository call made by the body of the scope.
Call(op, args, r) ==
    /\ conn.open
    /\ disk' = r.w.disk
    /\ conn' = [open |-> TRUE, in_transaction |-> r.w.in_transaction,
                view |-> r.w.view]
    /\ last' = Called(op, args, r)
    /\ UNCHANGED entered

CreateStudent ==
    \E v \in StudentValues :
        /\ conn.open
        /\ conn.view.sqlite_sequence.Students < MaxStudents
        /\ Call("students.create", <<Student(None, v)>>,
                StudentRepository_create(World, Student(None, v)))

GetStudentById ==
    \E id \in StudentIds :
        Call("students.get_by_id", <<id>>, StudentRepository_get_by_id(World, id))

UpdateStudent ==
    \E id \in StudentIds \cup {None}, v \in StudentValues :
        Call("students.update", <<Student(id, v)>>,
             StudentRepository_update(World, Student(id, v)))

DeleteStudent ==
    \E id \in StudentIds :
        Call("students.delete", <<id>>, StudentRepository_delete(World, id))

CreateCourse ==
    \E v \in CourseValues :
        /\ Call("courses.create", <<Course(None, v)>>,
                CourseRepository_create(World, Course(None, v)))

Enroll ==
    \E s \in EnrollStudentIds, c \in EnrollCourseIds :
        Call("enrollments.enroll", <<s, c>>, EnrollmentRepository_enroll(World, s, c))

Unenroll ==
    \E s \in EnrollStudentIds, c \in EnrollCourseIds :
        Call("enrollments.unenroll", <<s, c>>,
             EnrollmentRepository_unenroll(World, s, c))

\* The lists of student ids a caller hands over: any order, with repeats.
IdLists == UNION {[1..n -> EnrollStudentIds] : n \in 0..MaxBatch}

EnrollStudentsToCourse ==
    \E ids \in IdLists, c \in EnrollCourseIds :
        Call("enrollments.enroll_students_to_course", <<ids, c>>,
             EnrollmentRepository_enroll_students_to_course(World, ids, c))

GetCourseById ==
    \E id \in EnrollCourseIds :
        Call("courses.get_by_id", <<id>>, CourseRepository_get_by_id(World, id))

\* The course names a caller asks for.
CourseNames == {v.name : v \in CourseValues}

GetCourseByName ==
    \E name \in CourseNames :
        Call("courses.get_by_name", <<name>>, CourseRepository_get_by_name(World, name))

GetStudentsByIds ==
    \E ids \in IdLists :
        Call("students.get_by_ids", <<ids>>, StudentRepository_get_by_ids(World, ids))

\* The ages a caller asks for: the ages of the students and one in between.
AgeThresholds == {v.age : v \in StudentValues} \cup {30}

GetStudentsByAgeGt ==
    \E age \in AgeThresholds :
        Call("students.get_by_age_gt", <<age>>, StudentRepository_get_by_age_gt(World, age))

\* The cities a caller asks for.
Cities == {v.city : v \in StudentValues}

GetStudentsOnCourse ==
    \E name \in CourseNames :
        Call("enrollments.get_students_on_course", <<name>>,
             EnrollmentRepository_get_students_on_course(World, name))

GetStudentsOnCourseFromCity ==
    \E name \in CourseNames, city \in Cities :
        Call("enrollments.get_students_on_course_from_city", <<name, city>>,
             EnrollmentRepository_get_students_on_course_from_city(World, name, city))

CreateAnyStudent ==
    \E v \in AnyStudentValues :
        /\ conn.open
        /\ conn.view.sqlite_sequence.Students < MaxStudents
        /\ Call("students.create", <<Student(None, v)>>,
                StudentRepository_create(World, Student(None, v)))

UpdateAnyStudent ==
    \E id \in StudentIds \cup {None}, v \in AnyStudentValues :
        Call("students.update", <<Student(id, v)>>,
             StudentRepository_update(World, Student(id, v)))

\* What the user answers at the prompts of the enrollment menu.
Choices == {"1", "2", "3"}

\* The enrollment menu looks at the ids of the stored students only: the
\* students it meets are created from one Student value.
MenuStudentValues == {v \in StudentValues : v.name = "Max"}

CreateStudentForMenu ==
    \E v \in MenuStudentValues :
        /\ conn.open
        /\ conn.view.sqlite_sequence.Students < MaxStudents
        /\ Call("students.create", <<Student(None, v)>>,
                StudentRepository_create(World, Student(None, v)))

MenuEnrollStudentsToCourse ==
    /\ conn.open
    /\ \E course_id \in EnrollCourseIds, choice \in Choices, confirm \in BOOLEAN :
        \E typed \in (IF choice = "1" THEN IdLists ELSE {<<>>}) :
            \E selected \in {select_students_interactively(World, choice, typed)} :
                \E student_ids \in existence_filter(World, selected) :
                    \E r \in {menu_enroll_students_to_course(
                                  World, course_id, selected, student_ids, confirm)} :
                        /\ disk' = r.w.disk
                        /\ conn' = [open |-> TRUE,
                                    in_transaction |-> r.w.in_transaction,
                                    view |-> r.w.view]
                        /\ last' = [op |-> "menu_enroll_students_to_course",
                                    args |-> <<course_id, selected, confirm>>,
                                    type |-> r.type, ret |-> r.ret, exc |-> r.exc,
                                    calls |-> r.calls]
                        /\ UNCHANGED entered

\* The body ends without an error: __exit__(None, None, None).
ExitNormally ==
    /\ conn.open
    /\ LET w == DatabaseManager_exit(World, NoError)
       IN  disk' = w.disk
    /\ conn' = ClosedConn
    /\ last' = [op |-> "__exit__", args |-> <<NoError>>, type |-> "NoneType",
                ret |-> None, exc |-> NoError]
    /\ UNCHANGED entered

\* The body raises e (its own error, or the one the last call raised and the
\* body did not catch): __exit__(type(e), e, tb) returns None, so e propagates.
ExitRaising ==
    \E e \in BodyErrors \cup ({last.exc} \ {NoError}) :
        /\ conn.open
        /\ LET w == DatabaseManager_exit(World, e)
           IN  disk' = w.disk
        /\ conn' = ClosedConn
        /\ last' = [op |-> "__exit__", args |-> <<e>>, type |-> "raise",
                    ret |-> None, exc |-> e]
        /\ UNCHANGED entered

\* main_menu() is run again and again on the same database file.
Enter == EnterScope(FALSE)

\* One run of main_menu() on a new database file.
FirstEnter == last.op = "none" /\ EnterScope(TRUE)

Next ==
    \/ Enter
    \/ CreateStudent
    \/ GetStudentById
    \/ UpdateStudent
    \/ DeleteStudent
    \/ CreateCourse
    \/ Enroll
    \/ Unenroll
    \/ EnrollStudentsToCourse
    \/ ExitNormally
    \/ ExitRaising

Spec == Init /\ [][Next]_vars

NextScope ==
    \/ FirstEnter
    \/ CreateStudent
    \/ GetStudentById
    \/ UpdateStudent
    \/ DeleteStudent
    \/ CreateCourse
    \/ Enroll
    \/ Unenroll
    \/ EnrollStudentsToCourse
    \/ ExitNormally
    \/ ExitRaising

\* The scopes of one run, with the content at entry kept in `entered`.
SpecScope == Init /\ [][NextScope]_vars

NextQuery ==
    \/ Enter
    \/ CreateStudent
    \/ DeleteStudent
    \/ CreateCourse
    \/ Enroll
    \/ GetStudentById
    \/ GetCourseById
    \/ GetCourseByName
    \/ GetStudentsByIds
    \/ GetStudentsByAgeGt
    \/ GetStudentsOnCourse
    \/ GetStudentsOnCourseFromCity
    \/ ExitNormally

\* The read methods, on every content that creates, deletes and enrolls build.
SpecQuery == Init /\ [][NextQuery]_vars

NextEntity ==
    \/ Enter
    \/ CreateAnyStudent
    \/ UpdateAnyStudent
    \/ GetStudentById
    \/ ExitNormally

\* create and update called with any Student value, the repository's callers
\* not being bound to the checks of input_student_data.
SpecEntity == Init /\ [][NextEntity]_vars

NextMenu ==
    \/ Enter
    \/ CreateStudentForMenu
    \/ CreateCourse
    \/ MenuEnrollStudentsToCourse
    \/ ExitNormally

\* The enrollment menu, on databases with and without the students and the
\* courses its inputs name.
SpecMenu == Init /\ [][NextMenu]_vars

\* The errors a statement of _create_tables raises when the file cannot be
\* used (sqlite3.OperationalError: database is locked).
SchemaErrors == {"OperationalError"}

\* __enter__ when _create_tables raises e: sqlite3.connect has returned and
\* self.conn holds the open connection; the with statement does not call
\* __exit__ for an __enter__ that raised, and the body does not run.
EnterFailing ==
    \E e \in SchemaErrors :
        /\ ~conn.open
        /\ conn' = [open |-> TRUE, in_transaction |-> FALSE, view |-> disk]
        /\ last' = [op |-> "__enter__", args |-> <<>>, type |-> "raise",
                    ret |-> None, exc |-> e]
        /\ UNCHANGED <<disk, entered>>

\* The body of a scope runs, and __exit__ is called, when __enter__ returned.
ScopeEntered == conn.open /\ ~(last.op = "__enter__" /\ last.exc # NoError)

BodyCreateStudent == ScopeEntered /\ CreateStudent

BodyDeleteStudent == ScopeEntered /\ DeleteStudent

BodyCreateCourse == ScopeEntered /\ CreateCourse

BodyEnroll == ScopeEntered /\ Enroll

BodyReturns == ScopeEntered /\ ExitNormally

BodyRaises == ScopeEntered /\ ExitRaising

NextRelease ==
    \/ Enter
    \/ EnterFailing
    \/ BodyCreateStudent
    \/ BodyDeleteStudent
    \/ BodyCreateCourse
    \/ BodyEnroll
    \/ BodyReturns
    \/ BodyRaises

\* Scopes on a database file whose schema statements can fail.
SpecRelease == Init /\ [][NextRelease]_vars

\* level2 main(): school.initialize_database()
InitializeDatabase ==
    /\ ~conn.open
    /\ disk' = initialize_database(disk).disk
    /\ last' = [op |-> "initialize_database", args |-> <<>>, type |-> "NoneType",
                ret |-> None, exc |-> NoError]
    /\ UNCHANGED <<conn, entered>>

\* level2 main(): school.add_level2_data(), on the file the other levels use
\* (db_name defaults to 'school.db' in every level).
AddLevel2Data ==
    /\ ~conn.open
    /\ \E failing \in 0..Len(fixture_statements), e \in StatementErrors :
        \E r \in {add_level2_data(disk, failing, e)} :
            /\ disk' = r.w.disk
            /\ last' = [op |-> "add_level2_data", args |-> <<failing>>,
                        type |-> r.type, ret |-> r.ret, exc |-> r.exc]
    /\ UNCHANGED <<conn, entered>>

NextLevel2 ==
    \/ InitializeDatabase
    \/ AddLevel2Data
    \/ Enter
    \/ CreateStudentForMenu
    \/ Enroll
    \/ ExitNormally

\* The level2 demonstration and the level3 menus run on the same school.db.
SpecLevel2 == Init /\ [][NextLevel2]_vars

\* ================================================================ claims
Links(db) == db.Student_Courses

StudentExists(db, id) == id \in Ids(db.Students)

CourseExists(db, id) == id \in Ids(db.Courses)

\* What a caller sees of a call: the type and value returned, or the exception.
Outcome(r) == <<r.type, r.ret, r.exc>>

\* An error that names a foreign key with no matching row.
DanglingReference == {ForeignKeyFailed, "DanglingReferenceError"}

\* An entity the data model calls valid: a positive age and no empty field.
ValidStudent(s) == s.age > 0 /\ s.name # "" /\ s.surname # "" /\ s.city # ""

\* A step that is a call of enrollments.enroll; its arguments are last'.args.
EnrollStep == conn.open /\ conn'.open /\ last'.op = "enrollments.enroll"

\* A step that is a call of enroll_students_to_course.
BulkStep ==
    conn.open /\ conn'.open /\ last'.op = "enrollments.enroll_students_to_course"

\* C1: when the body of a DatabaseManager scope raises, the scope exits
\* re-raising that error and the durable rows are exactly those the database
\* held when the scope was entered.
C1_FailedScopeLeavesNoEffect ==
    (~conn.open /\ last.op = "__exit__" /\ last.exc # NoError)
        => (last.args = <<last.exc>> /\ disk = entered)

\* C2: no repository write commits on its own: while the scope is open the
\* durable content is still the content at entry, whatever calls were made.
C2_WritesAreOnlyStaged ==
    conn.open => disk = entered

\* C3: enrolling a student created in the current scope on a course id that has
\* no Course row raises a dangling-reference error, and the student's row is not
\* durable (it can still be, and is, undone with the failed enrollment).
C3_DanglingEnrollUndoesStudent ==
    (/\ conn.open
     /\ last.op = "enrollments.enroll"
     /\ last.args[1] \in Ids(conn.view.Students) \ Ids(entered.Students)
     /\ ~CourseExists(conn.view, last.args[2]))
        => (last.exc \in DanglingReference /\ ~StudentExists(disk, last.args[1]))

RECURSIVE ExpectedSuccessful(_, _, _, _)
ExpectedSuccessful(db, ids, course_id, i) ==
    IF i > Len(ids) THEN <<>>
    ELSE (IF /\ StudentExists(db, ids[i])
             /\ CopiesIn(<<ids[i], course_id>>, Links(db)) = 0
             /\ \A j \in 1..(i - 1) : ids[j] # ids[i]
          THEN <<ids[i]>> ELSE <<>>)
         \o ExpectedSuccessful(db, ids, course_id, i + 1)

\* C5: bulk enroll onto an existing course does not raise, reports as successful
\* exactly the existing, not yet enrolled ids in input order, and reports every
\* id that has no Student row in errors.
C5_BulkReportsUnknownIds ==
    [][(BulkStep /\ CourseExists(conn.view, last'.args[2]))
          => /\ last'.exc = NoError
             /\ last'.ret.successful =
                    ExpectedSuccessful(conn.view, last'.args[1], last'.args[2], 1)
             /\ \A i \in 1..Len(last'.args[1]) :
                    ~StudentExists(conn.view, last'.args[1][i])
                        => \E k \in 1..Len(last'.ret.errors) :
                               last'.ret.errors[k][1] = last'.args[1][i]]_vars

\* C6: after delete(s) has removed the row of student s, no row of
\* Student_Courses has student_id = s.
C6_DeleteCascades ==
    (/\ conn.open
     /\ last.op = "students.delete"
     /\ last.type = "bool" /\ last.ret = TRUE)
        => \A p \in BagToSet(Links(conn.view)) : p[1] # last.args[1]

\* C7: every row of Student_Courses names an existing Student row and an
\* existing Course row, in the durable content and in the connection's view.
C7_ReferentialIntegrity ==
    \A db \in {disk, conn.view} :
        \A p \in BagToSet(Links(db)) :
            StudentExists(db, p[1]) /\ CourseExists(db, p[2])

\* C8: no (student_id, course_id) pair has more than one row in
\* Student_Courses, in the durable content and in the connection's view.
C8_EnrollmentUnique ==
    \A db \in {disk, conn.view} :
        \A p \in BagToSet(Links(db)) : CopiesIn(p, Links(db)) = 1

\* C8 witness: a bulk enroll whose list repeats an id has run and that id has
\* its one row for the course.
C8_Witness ==
    /\ conn.open
    /\ last.op = "enrollments.enroll_students_to_course"
    /\ \E i, j \in 1..Len(last.args[1]) :
          /\ i < j
          /\ last.args[1][i] = last.args[1][j]
          /\ CopiesIn(<<last.args[1][i], last.args[2]>>, Links(disk)) = 1

\* C9: create of a valid Student returns an id i, and get_by_id(i) then returns
\* a Student with id i and the name, surname, age and city that were given.
C9_CreateGetRoundTrip ==
    (conn.open /\ last.op = "students.create" /\ ValidStudent(last.args[1]))
        => /\ last.type = "int"
           /\ Outcome(StudentRepository_get_by_id(World, last.ret))
                = <<"Student", [last.args[1] EXCEPT !.id = last.ret], NoError>>

\* C9 witness: a valid student has been created.
C9_Witness ==
    /\ conn.open
    /\ last.op = "students.create"
    /\ ValidStudent(last.args[1])
    /\ last.type = "int"
    /\ StudentExists(disk, last.ret)

\* C10: the result of an enroll that violates a foreign key (no row yet, unknown
\* student or course) differs from the result of an enroll that violates
\* uniqueness and from the result of an enroll that succeeds.
C10_ViolationsDistinguishable ==
    conn.open =>
        \A s \in EnrollStudentIds, c \in EnrollCourseIds :
            (/\ CopiesIn(<<s, c>>, Links(conn.view)) = 0
             /\ ~(StudentExists(conn.view, s) /\ CourseExists(conn.view, c)))
                => \A s2 \in EnrollStudentIds, c2 \in EnrollCourseIds :
                       (\/ CopiesIn(<<s2, c2>>, Links(conn.view)) > 0
                        \/ StudentExists(conn.view, s2) /\ CourseExists(conn.view, c2))
                           => Outcome(EnrollmentRepository_enroll(World, s, c))
                                # Outcome(EnrollmentRepository_enroll(World, s2, c2))

\* How many times x occurs in the list seq.
Occurrences(seq, x) == Cardinality({i \in 1..Len(seq) : seq[i] = x})

\* C11: bulk enroll lists every input id that had a row for the course before
\* the call in already_enrolled, once per occurrence in the input, leaves that
\* pair's row as it was, and goes on: every id that follows it in the input is
\* in one of the three lists of the report.
C11_AlreadyEnrolledAreSkipped ==
    [][BulkStep =>
          \A i \in 1..Len(last'.args[1]) :
              CopiesIn(<<last'.args[1][i], last'.args[2]>>, Links(conn.view)) > 0
                  => /\ last'.exc = NoError
                     /\ Occurrences(last'.ret.already_enrolled, last'.args[1][i])
                            = Occurrences(last'.args[1], last'.args[1][i])
                     /\ Occurrences(last'.ret.successful, last'.args[1][i]) = 0
                     /\ CopiesIn(<<last'.args[1][i], last'.args[2]>>, Links(conn'.view))
                            = CopiesIn(<<last'.args[1][i], last'.args[2]>>, Links(conn.view))
                     /\ \A j \in (i + 1)..Len(last'.args[1]) :
                            \/ Occurrences(last'.ret.successful, last'.args[1][j]) > 0
                            \/ Occurrences(last'.ret.already_enrolled, last'.args[1][j]) > 0
                            \/ \E k \in 1..Len(last'.ret.errors) :
                                   last'.ret.errors[k][1] = last'.args[1][j]]_vars

\* C11 witness: a bulk enroll of two different ids has reported the first as
\* already enrolled and has enrolled the second, which follows it.
C11_Witness ==
    /\ conn.open
    /\ last.op = "enrollments.enroll_students_to_course"
    /\ Len(last.args[1]) = 2
    /\ last.args[1][1] # last.args[1][2]
    /\ last.ret.already_enrolled = <<last.args[1][1]>>
    /\ last.ret.successful = <<last.args[1][2]>>
    /\ CopiesIn(<<last.args[1][1], last.args[2]>>, Links(conn.view)) = 1

\* C12: when bulk enroll has returned, every id listed in successful has a row
\* for the course in the durable content, whatever the other two lists hold, and
\* every input id has its row unless the report lists it in errors.
C12_BulkIsBestEffort ==
    (conn.open /\ last.op = "enrollments.enroll_students_to_course")
        => /\ last.exc = NoError
           /\ \A k \in 1..Len(last.ret.successful) :
                  CopiesIn(<<last.ret.successful[k], last.args[2]>>, Links(disk)) = 1
           /\ \A i \in 1..Len(last.args[1]) :
                  \/ CopiesIn(<<last.args[1][i], last.args[2]>>, Links(disk)) = 1
                  \/ \E k \in 1..Len(last.ret.errors) :
                         last.ret.errors[k][1] = last.args[1][i]

\* C12 witness: a bulk enroll has returned with an id in successful and another
\* in already_enrolled, and the successful id's row is durable.
C12_Witness ==
    /\ conn.open
    /\ last.op = "enrollments.enroll_students_to_course"
    /\ Len(last.ret.successful) > 0
    /\ Len(last.ret.already_enrolled) > 0
    /\ CopiesIn(<<last.ret.successful[1], last.args[2]>>, Links(disk)) = 1

\* An error that says the addressed entity does not exist.
NotFound == {"NotFoundError"}

\* A step that is a call of students.update with an id that has no row.
UpdateMissingStep ==
    /\ conn.open /\ conn'.open
    /\ last'.op = "students.update"
    /\ last'.args[1].id # None
    /\ ~StudentExists(conn.view, last'.args[1].id)

\* C14 as stated: update of a student whose id has no row raises a not-found
\* error, and the durable content and the connection's view stay as they were.
C14_UpdateMissingRaises ==
    [][UpdateMissingStep
          => /\ last'.exc \in NotFound
             /\ disk' = disk
             /\ conn'.view = conn.view]_vars

\* C14 amended: update of a student whose id has no row returns False and
\* raises nothing, and the durable content and the connection's view stay as
\* they were (no row changed, no row inserted).
C14_UpdateMissingReturnsFalse ==
    [][UpdateMissingStep
          => /\ last'.exc = NoError
             /\ last'.type = "bool"
             /\ last'.ret = FALSE
             /\ disk' = disk
             /\ conn'.view = conn.view]_vars

\* C14 witness: an update of an id that has no row has returned False while
\* another student is stored.
C14_Witness ==
    /\ conn.open
    /\ last.op = "students.update"
    /\ last.type = "bool" /\ last.ret = FALSE
    /\ ~StudentExists(conn.view, last.args[1].id)
    /\ Len(conn.view.Students) > 0

\* A step that is a call of students.delete with an id that has no row.
DeleteMissingStep ==
    /\ conn.open /\ conn'.open
    /\ last'.op = "students.delete"
    /\ ~StudentExists(conn.view, last'.args[1])

\* C15 as stated: delete of a student id that has no row raises a not-found
\* error, and Students and Student_Courses stay as they were.
C15_DeleteMissingRaises ==
    [][DeleteMissingStep
          => /\ last'.exc \in NotFound
             /\ \A db \in {<<disk, disk'>>, <<conn.view, conn'.view>>} :
                    /\ db[2].Students = db[1].Students
                    /\ Links(db[2]) = Links(db[1])]_vars

\* C15 amended: delete of a student id that has no row returns False and raises
\* nothing, and Students and Student_Courses stay as they were.
C15_DeleteMissingReturnsFalse ==
    [][DeleteMissingStep
          => /\ last'.exc = NoError
             /\ last'.type = "bool"
             /\ last'.ret = FALSE
             /\ \A db \in {<<disk, disk'>>, <<conn.view, conn'.view>>} :
                    /\ db[2].Students = db[1].Students
                    /\ Links(db[2]) = Links(db[1])]_vars

\* C15 witness: a delete of an id that has no Student row has returned False
\* while that id still has an enrollment row.
C15_Witness ==
    /\ conn.open
    /\ last.op = "students.delete"
    /\ last.type = "bool" /\ last.ret = FALSE
    /\ ~StudentExists(conn.view, last.args[1])
    /\ \E p \in BagToSet(Links(conn.view)) : p[1] = last.args[1]

\* No two rows of Courses have the same name.
UniqueCourseNames(db) ==
    \A i, j \in 1..Len(db.Courses) :
        db.Courses[i][2] = db.Courses[j][2] => i = j

\* C17: after every step no two Course rows share a name, in the durable
\* content and in the connection's view; courses.create with a name that a
\* stored course has raises and leaves Courses as it was.
C17_CourseNamesUnique ==
    [][/\ UniqueCourseNames(disk')
       /\ UniqueCourseNames(conn'.view)
       /\ (/\ conn.open /\ conn'.open
           /\ last'.op = "courses.create"
           /\ \E i \in 1..Len(conn.view.Courses) :
                  conn.view.Courses[i][2] = last'.args[1].name)
             => /\ last'.exc \in IntegrityError
                /\ conn'.view.Courses = conn.view.Courses
                /\ disk'.Courses = disk.Courses]_vars

\* C17 witness: a create of a course whose name is taken has raised and the
\* name still has its one row.
C17_Witness ==
    /\ conn.open
    /\ last.op = "courses.create"
    /\ last.exc = UniqueFailed
    /\ Cardinality({i \in 1..Len(conn.view.Courses) :
                        conn.view.Courses[i][2] = last.args[1].name}) = 1

\* The entities a stored Students row and a stored Courses row stand for.
StudentOf(t) == [id |-> t[1], name |-> t[2], surname |-> t[3], age |-> t[4], city |-> t[5]]

CourseOf(t) == [id |-> t[1], name |-> t[2], time_start |-> t[3], time_end |-> t[4]]

StoredStudents(db) == {StudentOf(db.Students[i]) : i \in 1..Len(db.Students)}

StoredCourses(db) == {CourseOf(db.Courses[i]) : i \in 1..Len(db.Courses)}

\* The single-entity lookups, and the stored entities the key of one matches.
Lookups == {"students.get_by_id", "courses.get_by_id", "courses.get_by_name"}

Matching(op, db, key) ==
    CASE op = "students.get_by_id" -> {s \in StoredStudents(db) : s.id = key}
      [] op = "courses.get_by_id" -> {c \in StoredCourses(db) : c.id = key}
      [] op = "courses.get_by_name" -> {c \in StoredCourses(db) : c.name = key}

\* C13: a single-entity lookup never raises and changes neither the durable
\* content nor the connection's view; it returns None when no row matches its
\* key and the entity of a matching row otherwise.
C13_LookupReturnsEntityOrNone ==
    [][(conn.open /\ conn'.open /\ last'.op \in Lookups)
          => /\ last'.exc = NoError
             /\ disk' = disk
             /\ conn'.view = conn.view
             /\ IF Matching(last'.op, conn.view, last'.args[1]) = {}
                THEN last'.type = "NoneType" /\ last'.ret = None
                ELSE /\ last'.type \in {"Student", "Course"}
                     /\ last'.ret \in Matching(last'.op, conn.view, last'.args[1])]_vars

\* C13 witness: courses.get_by_id has returned None for an id that has no row
\* while another course is stored.
C13_Witness ==
    /\ conn.open
    /\ last.op = "courses.get_by_id"
    /\ last.type = "NoneType"
    /\ ~CourseExists(conn.view, last.args[1])
    /\ Len(conn.view.Courses) > 0

\* C16: every stored Student row has a positive age and a non-empty name,
\* surname and city, in the durable content and in the connection's view, and a
\* create or update given an entity that is not so raises.
C16_StoredStudentsAreValid ==
    /\ \A db \in {disk, conn.view} :
           \A s \in StoredStudents(db) : ValidStudent(s)
    /\ (/\ conn.open
        /\ last.op \in {"students.create", "students.update"}
        /\ ~ValidStudent(last.args[1]))
          => last.exc # NoError

\* Every entry of list is in S, every member of S is in list exactly once.
ListsEachOnce(list, S) ==
    /\ \A k \in 1..Len(list) : list[k] \in S
    /\ \A s \in S : Cardinality({k \in 1..Len(list) : list[k] = s}) = 1

\* C18: get_by_age_gt(a) returns the stored students whose age is greater than
\* a, each once and no other (none of age a), in ascending id order.
C18_AgeGtExact ==
    (conn.open /\ last.op = "students.get_by_age_gt")
        => /\ last.exc = NoError
           /\ ListsEachOnce(last.ret,
                  {s \in StoredStudents(conn.view) : s.age > last.args[1]})
           /\ \A k, l \in 1..Len(last.ret) :
                  k < l => last.ret[k].id < last.ret[l].id

\* C18 witness: get_by_age_gt(a) has returned an older student and left out a
\* stored student whose age is a.
C18_Witness ==
    /\ conn.open
    /\ last.op = "students.get_by_age_gt"
    /\ Len(last.ret) > 0
    /\ \E s \in StoredStudents(conn.view) : s.age = last.args[1]

\* The stored students that have a row for a stored course of that name.
OnCourse(db, course_name) ==
    {s \in StoredStudents(db) :
        \E c \in StoredCourses(db) :
            c.name = course_name /\ CopiesIn(<<s.id, c.id>>, Links(db)) > 0}

\* C19: get_students_on_course_from_city(name, city) returns the stored
\* students of that city that have an enrollment row for the course of that
\* name, each once, and no other student.
C19_CourseAndCityExact ==
    (conn.open /\ last.op = "enrollments.get_students_on_course_from_city")
        => /\ last.exc = NoError
           /\ ListsEachOnce(last.ret,
                  {s \in OnCourse(conn.view, last.args[1]) : s.city = last.args[2]})

\* C19 witness: the filter has returned one student while a student of another
\* city is on the same course and a student of the same city is on another.
C19_Witness ==
    /\ conn.open
    /\ last.op = "enrollments.get_students_on_course_from_city"
    /\ Len(last.ret) = 1
    /\ \E s \in OnCourse(conn.view, last.args[1]) : s.city # last.args[2]
    /\ \E name \in CourseNames \ {last.args[1]} :
           \E s \in OnCourse(conn.view, name) : s.city = last.args[2]

\* C20: get_by_ids of an empty list returns an empty list and executes no
\* statement; get_by_ids of any list returns the stored students whose id is in
\* the list, each once, and no other.
C20_GetByIdsExact ==
    (conn.open /\ last.op = "students.get_by_ids")
        => /\ last.exc = NoError
           /\ Outcome(StudentRepository_get_by_ids(World, last.args[1])) = Outcome(last)
           /\ last.args[1] = <<>>
                  => /\ last.ret = <<>>
                     /\ StudentRepository_get_by_ids(World, last.args[1]).executed = <<>>
           /\ ListsEachOnce(last.ret,
                  {s \in StoredStudents(conn.view) :
                      \E i \in 1..Len(last.args[1]) : last.args[1][i] = s.id})

\* C20 witness: get_by_ids of a list that names a stored id twice has returned
\* that student once, while another student is stored.
C20_Witness ==
    /\ conn.open
    /\ last.op = "students.get_by_ids"
    /\ Len(last.ret) = 1
    /\ Len(conn.view.Students) > 1
    /\ \E i, j \in 1..Len(last.args[1]) :
           i < j /\ last.args[1][i] = last.args[1][j] /\ last.args[1][i] = last.ret[1].id

\* C24: enroll never raises; it returns True exactly when the pair has one row
\* more than before, and when it returns False Student_Courses is as it was, in
\* the durable content and in the connection's view.
C24_EnrollReturnsWhetherAdded ==
    [][EnrollStep
          => /\ last'.exc = NoError
             /\ last'.type = "bool"
             /\ last'.ret = (CopiesIn(last'.args, Links(conn'.view))
                                = CopiesIn(last'.args, Links(conn.view)) + 1)
             /\ last'.ret = (CopiesIn(last'.args, Links(disk'))
                                = CopiesIn(last'.args, Links(disk)) + 1)
             /\ last'.ret = FALSE
                    => /\ CopiesIn(last'.args, Links(conn.view)) > 0
                       /\ Links(conn'.view) = Links(conn.view)
                       /\ Links(disk') = Links(disk)]_vars

\* C24 witness: an enroll of a pair that has its row has returned False, and
\* the pair is one of several stored rows.
C24_Witness ==
    /\ conn.open
    /\ last.op = "enrollments.enroll"
    /\ last.type = "bool" /\ last.ret = FALSE
    /\ CopiesIn(last.args, Links(disk)) = 1
    /\ BagCardinality(Links(disk)) > 1

\* A step that is a call of enrollments.unenroll; its arguments are last'.args.
UnenrollStep == conn.open /\ conn'.open /\ last'.op = "enrollments.unenroll"

\* C28: unenroll(s, c) never raises and returns True exactly when (s, c) had a
\* row; afterwards (s, c) has no row, every other pair has the rows it had, and
\* Students and Courses are as they were, in the durable content and in the
\* connection's view.
C28_UnenrollRemovesOnlyThePair ==
    [][UnenrollStep
          => /\ last'.exc = NoError
             /\ last'.type = "bool"
             /\ last'.ret = (CopiesIn(last'.args, Links(conn.view)) > 0)
             /\ \A db \in {<<disk, disk'>>, <<conn.view, conn'.view>>} :
                    /\ CopiesIn(last'.args, Links(db[2])) = 0
                    /\ \A p \in BagToSet(Links(db[1])) \cup BagToSet(Links(db[2])) :
                           p # last'.args
                               => CopiesIn(p, Links(db[2])) = CopiesIn(p, Links(db[1]))
                    /\ db[2].Students = db[1].Students
                    /\ db[2].Courses = db[1].Courses]_vars

\* C28 witness: an unenroll has returned True and another row of the same
\* student is still stored.
C28_Witness ==
    /\ conn.open
    /\ last.op = "enrollments.unenroll"
    /\ last.type = "bool" /\ last.ret = TRUE
    /\ CopiesIn(last.args, Links(disk)) = 0
    /\ \E p \in BagToSet(Links(disk)) : p[1] = last.args[1]

\* A step that is a call of students.update; its argument is last'.args[1].
UpdateStep == conn.open /\ conn'.open /\ last'.op = "students.update"

\* before and after hold the same Students rows but for the name, surname, age
\* and city of the row with that id, and the same Courses, Student_Courses and
\* AUTOINCREMENT bookkeeping.
OnlyFieldsOfChanged(before, after, id) ==
    /\ Len(after.Students) = Len(before.Students)
    /\ \A i \in 1..Len(before.Students) :
           /\ after.Students[i][1] = before.Students[i][1]
           /\ before.Students[i][1] # id => after.Students[i] = before.Students[i]
    /\ after.Courses = before.Courses
    /\ Links(after) = Links(before)
    /\ after.sqlite_sequence = before.sqlite_sequence

\* C23: update(student) keeps every row's id, every other student's row, the
\* Courses table and the enrollment table; when it returns True the row of
\* student.id holds the given name, surname, age and city; with student.id
\* unset it raises and changes nothing.
C23_UpdateChangesOnlyItsRow ==
    [][UpdateStep
          => /\ \A db \in {<<disk, disk'>>, <<conn.view, conn'.view>>} :
                    OnlyFieldsOfChanged(db[1], db[2], last'.args[1].id)
             /\ (last'.type = "bool" /\ last'.ret = TRUE)
                    => last'.args[1] \in StoredStudents(disk')
             /\ last'.args[1].id = None
                    => /\ last'.exc # NoError
                       /\ disk' = disk
                       /\ conn'.view = conn.view]_vars

\* C23 witness: an update has returned True and changed its row while another
\* student, with other values, is stored.
C23_Witness ==
    /\ conn.open
    /\ last.op = "students.update"
    /\ last.type = "bool" /\ last.ret = TRUE
    /\ last.args[1] \in StoredStudents(disk)
    /\ \E s \in StoredStudents(disk) :
           s.id # last.args[1].id /\ s.name # last.args[1].name

\* The ids of the entries of the errors list of a bulk report.
ErrorIds(errors) == [k \in 1..Len(errors) |-> errors[k][1]]

\* C26: the three lists of the bulk report hold each occurrence of an input id
\* once between them, so their lengths sum to the length of the input; an id
\* that had no row for the course and occurs more than once is in successful
\* once, for its first occurrence, and in already_enrolled for the others.
C26_BulkReportPartitionsInput ==
    [][BulkStep
          => /\ last'.exc = NoError
             /\ Len(last'.ret.successful) + Len(last'.ret.already_enrolled)
                    + Len(last'.ret.errors) = Len(last'.args[1])
             /\ \A id \in EnrollStudentIds :
                    /\ Occurrences(last'.ret.successful, id)
                         + Occurrences(last'.ret.already_enrolled, id)
                         + Occurrences(ErrorIds(last'.ret.errors), id)
                           = Occurrences(last'.args[1], id)
                    /\ (/\ Occurrences(last'.args[1], id) > 1
                        /\ CopiesIn(<<id, last'.args[2]>>, Links(conn.view)) = 0)
                          => /\ Occurrences(last'.ret.successful, id) = 1
                             /\ Occurrences(last'.ret.already_enrolled, id)
                                    = Occurrences(last'.args[1], id) - 1]_vars

\* C26 witness: a bulk enroll of a list that names one id twice has reported it
\* once as successful and once as already enrolled.
C26_Witness ==
    /\ conn.open
    /\ last.op = "enrollments.enroll_students_to_course"
    /\ \E id \in EnrollStudentIds :
           /\ Occurrences(last.args[1], id) = 2
           /\ last.ret.successful = <<id>>
           /\ last.ret.already_enrolled = <<id>>
           /\ last.ret.errors = <<>>

\* The largest student id create has ever returned, as SQLite keeps it.
LastStudentId(db) == db.sqlite_sequence.Students

\* C27: the largest student id ever returned is never lowered, by a delete
\* or by anything else, and no stored student has an id above it; create
\* returns an id above it, hence an id no earlier create returned, whether
\* that student is still stored or not, and no enrollment row left for a
\* deleted student names the new id.
C27_StudentIdsNeverReused ==
    [][/\ LastStudentId(disk') >= LastStudentId(disk)
       /\ \A id \in Ids(disk'.Students) : id <= LastStudentId(disk')
       /\ (/\ conn.open /\ conn'.open
           /\ last'.op = "students.create"
           /\ last'.type = "int")
             => /\ last'.ret > LastStudentId(disk)
                /\ last'.ret <= LastStudentId(disk')
                /\ ~StudentExists(disk, last'.ret)
                /\ \A p \in BagToSet(Links(disk)) :
                       p[1] <= LastStudentId(disk) => p[1] # last'.ret]_vars

\* C27 witness: create has returned an id while an enrollment row of a
\* deleted student with a smaller id is still stored.
C27_Witness ==
    /\ conn.open
    /\ last.op = "students.create"
    /\ last.type = "int"
    /\ \E p \in BagToSet(Links(disk)) :
           p[1] < last.ret /\ ~StudentExists(disk, p[1])

\* C29: entering a scope on a database that holds the three tables leaves the
\* durable content as it was, and the new connection sees exactly that content.
C29_BootstrapKeepsRows ==
    [][(~conn.open /\ conn'.open /\ disk.tables)
          => /\ disk' = disk
             /\ conn'.view = disk
             /\ ~conn'.in_transaction]_vars

\* C29 witness: a scope has been entered on a database that holds students,
\* courses and enrollment rows, and they are all there.
C29_Witness ==
    /\ conn.open
    /\ last.op = "__enter__"
    /\ Len(disk.Students) > 0
    /\ Len(disk.Courses) > 0
    /\ BagCardinality(Links(disk)) > 0
    /\ conn.view = disk

C30_MenuPassesOnlyExistingIds ==
    (conn.open /\ last.op = "menu_enroll_students_to_course")
        => \A k \in 1..Len(last.calls) :
               /\ \A i \in 1..Len(last.calls[k][1]) :
                      StudentExists(conn.view, last.calls[k][1][i])
               /\ \A i \in 1..Len(last.args[2]) :
                      StudentExists(conn.view, last.args[2][i])
                          => Occurrences(last.calls[k][1], last.args[2][i]) > 0

\* C30 witness: the menu was given a list with the id of a stored student and
\* an id with no row, and has called enroll_students_to_course with the stored
\* one alone.
C30_Witness ==
    /\ conn.open
    /\ last.op = "menu_enroll_students_to_course"
    /\ Len(last.calls) = 1
    /\ Len(last.calls[1][1]) = 1
    /\ \E i \in 1..Len(last.args[2]) : ~StudentExists(conn.view, last.args[2][i])
    /\ CopiesIn(<<last.calls[1][1][1], last.calls[1][2]>>, Links(disk)) = 1

\* C22: a connection is open only inside a scope: after __exit__, whether the
\* body returned or raised, the connection is closed and holds no open
\* transaction, and after an __enter__ that raised it is closed as well.
C22_ScopeAlwaysReleased ==
    /\ last.op = "__exit__" => (~conn.open /\ ~conn.in_transaction)
    /\ (last.op = "__enter__" /\ last.exc # NoError) => ~conn.open

\* The rows of the three tables of a database.
RowsOf(db) == <<db.Students, db.Courses, db.Student_Courses>>

\* The complete fixture of add_level2_data.
FixtureRows ==
    <<students_data, courses_data,
      SetToBag({enrollments_data[i] : i \in 1..Len(enrollments_data)})>>

\* C25: add_level2_data is atomic: a call that raises leaves the rows of
\* Students, Courses and Student_courses as they were before the call, and a
\* call that returns leaves exactly the fixture.
C25_AddLevel2DataIsAtomic ==
    [][last'.op = "add_level2_data" =>
          IF last'.exc # NoError
          THEN RowsOf(disk') = RowsOf(disk)
          ELSE RowsOf(disk') = FixtureRows]_vars

====
